---- MODULE Spec2Model ----
(***************************************************************************)
(* A model of the learn_wgpu renderer: the ECS frame loop (render as an    *)
(* exclusive system at the start of the frame, the other systems in any    *)
(* order, deferred commands applied at the end of the stage), the          *)
(* instance-buffer systems, the OBJ loading paths, the main render pass    *)
(* with its opaque / transparent / light draws, the depth overlay, the     *)
(* resize system and the three frame orchestrators of the repository.      *)
(*                                                                         *)
(* Conventions.  Option<T> is a sequence: <<>> is None, <<x>> is Some(x).  *)
(* An f32 alpha is kept in tenths (1.0 is 10).  A Transform is followed    *)
(* in the plane (x, y): translation <<x, y>>, rotation in quarter turns,   *)
(* scale <<sx, sy>>; a 4x4 matrix is the affine map v |-> lin * v + off it *)
(* stands for, lin a 2x2 matrix of rows.  A bind-group layout is the list  *)
(* of resource kinds at binding 0, 1, ...  The model records the commands  *)
(* the code issues; Rust panics of the code itself (index out of bounds,   *)
(* expect) stop the process, the GPU's validation of a recorded command is *)
(* not modelled.                                                           *)
(***************************************************************************)
EXTENDS Integers, Sequences, FiniteSets, TLC

VARIABLES
    variant,        \* which orchestrator drives the frame: "wgpu", "renderer", "state"
    app,            \* the systems registered in the Update stage
    asset,          \* the parsed OBJ: tobj materials (alpha) and meshes (material_id)
    assetLoaded,    \* the names under which Assets<LoadedObj> holds the asset
    load_panicked,  \* the names whose asset loader task panicked in load_obj
    mesh_spawned,   \* Local<bool> of handle_obj_loaded and handle_instanced_obj_loaded
    ent,            \* the world: components of each entity
    commands,       \* Commands queued by this frame's systems
    added,          \* per entity: components added since create_instance_buffer last ran
    changed,        \* per entity: Instances changed since update_instance_buffer last ran
    pending,        \* the systems that have not run yet in this frame
    passes,         \* the render passes recorded by the last call of render
    lastFrame,      \* outcome of the last call of render
    submits,        \* queue.submit calls made by the last call of render
    surfaceOk,      \* the surface can hand out its next texture
    failStreak,     \* consecutive failed acquisitions, counted up to MaxFailStreak
    panicked,       \* the process has panicked
    lastWrite,      \* the queue.write_buffer calls of the last update_instance_buffer
    window,         \* physical size of the window
    events,         \* WindowResized events not yet read by resize
    config,         \* renderer.config: the surface configuration
    depthTexture,   \* the DepthTexture resource
    depthPass,      \* the DepthPass resource
    showDepth,      \* ShowDepthBuffer
    texCount,       \* textures created so far (texture identity)
    keys,           \* a camera movement key is held
    camera,         \* the Camera resource
    camera_uniform, \* the CameraUniform resource
    uniform_changed,\* CameraUniform changed since update_camera_buffer last ran
    camera_buffer,  \* contents of the CameraBuffer
    cameraWritten,  \* the CameraBuffer was written in this frame
    cause,          \* what marked the Camera changed in this frame
    light,          \* the Light component of the light entity
    light_buffer,   \* contents of the LightBuffer
    animate_light,  \* the "animate light" setting
    queue           \* the command buffers submitted to the queue in this frame

vars == <<variant, app, asset, assetLoaded, load_panicked, mesh_spawned, ent, commands, added,
          changed, pending, passes, lastFrame, submits, surfaceOk, failStreak, panicked, lastWrite,
          window, events, config, depthTexture, depthPass, showDepth, texCount,
          keys, camera, camera_uniform, uniform_changed, camera_buffer, cameraWritten, cause,
          light, light_buffer, animate_light, queue>>

(***************************************************************************)
(* Bounds of the model.                                                    *)
(***************************************************************************)
MaxMaterials == 2       \* materials of an OBJ
MaxMeshes == 2          \* meshes of an OBJ
MaxInst == 5            \* longest Instances list a mutation can set
MaxTranslation == 1     \* translations are 0..MaxTranslation
MaxFailStreak == 2      \* failed acquisitions counted in a row
MaxResizes == 2         \* resize events over a run
MaxDim == 2             \* window width and height are 1..MaxDim

(***************************************************************************)
(* Program constants.                                                      *)
(***************************************************************************)
NUM_INSTANCES_PER_ROW == 1
AlphaOpaque == 10       \* the literal 1.0 of Model::draw_instanced, in tenths

None == <<>>
Some(x) == <<x>>
IsSome(o) == o # <<>>
Unwrap(o) == o[1]

Max(a, b) == IF a > b THEN a ELSE b
Min(a, b) == IF a < b THEN a ELSE b

RECURSIVE SeqsUpTo(_, _)
SeqsUpTo(S, n) ==
    IF n = 0 THEN {<<>>}
    ELSE LET shorter == SeqsUpTo(S, n - 1)
         IN  shorter \cup {Append(s, x) : s \in {t \in shorter : Len(t) = n - 1}, x \in S}

Repeat(x, n) == [i \in 1..n |-> x]

(***************************************************************************)
(* Bind-group layouts and bind groups.                                     *)
(***************************************************************************)
CameraLayout == <<"uniform">>
LightLayout == <<"uniform">>
TextureLayout == <<"texture", "sampler">>
MaterialLayout == <<"uniform", "texture", "sampler">>
DepthLayout == <<"depth_texture", "comparison_sampler">>

\* device.create_bind_group_layout returns a new layout object at every call: an
\* object is named by the call that created it
create_bind_group_layout(call) == call

camera_bind_group ==
    [name |-> "camera", layout |-> CameraLayout,
     layout_object |-> create_bind_group_layout("camera.rs:237")]
light_bind_group ==
    [name |-> "light", layout |-> LightLayout,
     layout_object |-> create_bind_group_layout("light.rs:57")]
texture_bind_group ==
    [name |-> "material", layout |-> TextureLayout,
     layout_object |-> create_bind_group_layout("main.rs:235")]
material_bind_group ==
    [name |-> "material", layout |-> MaterialLayout,
     layout_object |-> create_bind_group_layout("material.rs:53")]

(***************************************************************************)
(* Pipelines of OpaquePass::from_world and of DepthPass::new.              *)
(***************************************************************************)
render_pipeline_layout == <<CameraLayout, LightLayout, TextureLayout>>
light_pipeline_layout == <<CameraLayout, LightLayout>>

\* the layout objects the pipeline layouts are created from
render_pipeline_layout_objects ==
    <<create_bind_group_layout("render_phase_3d.rs:121"),
      create_bind_group_layout("render_phase_3d.rs:122"),
      create_bind_group_layout("render_phase_3d.rs:123")>>
light_pipeline_layout_objects ==
    <<create_bind_group_layout("render_phase_3d.rs:167"),
      create_bind_group_layout("render_phase_3d.rs:168")>>
depth_pipeline_layout_objects == <<create_bind_group_layout("depth_pass/mod.rs:70")>>

render_pipeline ==
    [name |-> "opaque", layout |-> render_pipeline_layout,
     layout_objects |-> render_pipeline_layout_objects,
     depth_write_enabled |-> TRUE, depth_compare |-> "Less", blend |-> "REPLACE"]
transparent_render_pipeline ==
    [name |-> "transparent", layout |-> render_pipeline_layout,
     layout_objects |-> render_pipeline_layout_objects,
     depth_write_enabled |-> TRUE, depth_compare |-> "Less", blend |-> "ALPHA_BLENDING"]
light_render_pipeline ==
    [name |-> "light", layout |-> light_pipeline_layout,
     layout_objects |-> light_pipeline_layout_objects,
     depth_write_enabled |-> FALSE, depth_compare |-> "Less", blend |-> "REPLACE"]
depth_render_pipeline ==
    [name |-> "depth", layout |-> <<DepthLayout>>,
     layout_objects |-> depth_pipeline_layout_objects,
     depth_write_enabled |-> FALSE, depth_compare |-> "None", blend |-> "REPLACE"]

(***************************************************************************)
(* Transforms and instance matrices.                                       *)
(***************************************************************************)
\* the transforms the scene is moved to: along y, not rotated, not scaled
TransformVals ==
    [translation : {<<0, y>> : y \in 0..MaxTranslation}, rotation : {0}, scale : {<<1, 1>>}]

DefaultTransform == [translation |-> <<0, 0>>, rotation |-> 0, scale |-> <<1, 1>>]

\* the matrix of a rotation by q quarter turns
Rot(q) ==
    CASE q % 4 = 0 -> <<<<1, 0>>, <<0, 1>>>>
      [] q % 4 = 1 -> <<<<0, -1>>, <<1, 0>>>>
      [] q % 4 = 2 -> <<<<-1, 0>>, <<0, -1>>>>
      [] OTHER -> <<<<0, 1>>, <<-1, 0>>>>

\* a composition that scales the rows of the rotation (scale * rotation)
from_scale_rotation_translation_rows(scale, rotation, translation) ==
    [lin |-> [r \in 1..2 |-> [c \in 1..2 |-> Rot(rotation)[r][c] * scale[r]]],
     off |-> translation]

\* Mat4::from_scale_rotation_translation: the axes of the rotation, each multiplied
\* by its component of the scale, are the columns; the translation is the last column
from_scale_rotation_translation(scale, rotation, translation) ==
    [lin |-> [r \in 1..2 |-> [c \in 1..2 |-> Rot(rotation)[r][c] * scale[c]]],
     off |-> translation]

\* Transform::to_raw
to_raw(t) == from_scale_rotation_translation(t.scale, t.rotation, t.translation)

Raw(ts) == [i \in 1..Len(ts) |-> to_raw(ts[i])]

\* the Instances lists a mutation can set: n copies of one transform
InstLists == {Repeat(t, n) : t \in TransformVals, n \in 1..MaxInst}

(***************************************************************************)
(* The parsed OBJ and the two loaders that build a Model from it.          *)
(***************************************************************************)
Alphas == {4, AlphaOpaque}

\* tobj: a mesh names no material or one of the materials of the file
MaterialIds(ms) == {None} \cup {Some(k) : k \in 0..(Len(ms) - 1)}

\* via names the constructor the materials of the LoadedObj are built by; broken holds
\* the materials one of whose texture files cannot be read or decoded
AssetsVia(via) ==
    UNION {{[materials |-> ms, meshes |-> ids, via |-> via, broken |-> {}] :
                ids \in SeqsUpTo(MaterialIds(ms), MaxMeshes) \ {<<>>}}
            : ms \in SeqsUpTo(Alphas, MaxMaterials)}

Assets == AssetsVia("load_material")

\* OBJ files whose materials have a dissolve below, at and above 1.0, each named by
\* one mesh
AlphasBeyond == {4, AlphaOpaque, 12}

AlphaAssets ==
    {[materials |-> ms, meshes |-> [i \in 1..Len(ms) |-> Some(i - 1)],
      via |-> "load_material", broken |-> {}] :
        ms \in {<<a>> : a \in AlphasBeyond} \cup {<<a, b>> : a, b \in AlphasBeyond}}

\* OBJ files some of whose materials name a texture that cannot be loaded, each
\* material named by one mesh
BrokenAssets ==
    UNION {{[materials |-> ms, meshes |-> [i \in 1..Len(ms) |-> Some(i - 1)],
             via |-> "load_material", broken |-> b] : b \in SUBSET (1..Len(ms))}
            : ms \in SeqsUpTo(Alphas, MaxMaterials) \ {<<>>}}

\* Option::unwrap_or
unwrap_or(o, d) == IF IsSome(o) THEN Unwrap(o) ELSE d

\* the meshes both loaders build: material_id: m.mesh.material_id.unwrap_or(0)
LoadedMeshes(a) ==
    [i \in 1..Len(a.meshes) |-> [material_id |-> unwrap_or(a.meshes[i], 0)]]

\* resources.rs load_model: the Material of this loader has no alpha (dissolve is
\* not read), it is drawn with the alpha Material::new stores; its bind group is
\* made with the texture layout the caller passes
load_model(a) ==
    LET loaded == [i \in 1..Len(a.materials) |->
                      [alpha |-> AlphaOpaque, bind_group |-> texture_bind_group]]
        materials == IF loaded = <<>>
                     THEN <<[alpha |-> AlphaOpaque, bind_group |-> texture_bind_group]>>
                     ELSE loaded
    IN  [meshes |-> LoadedMeshes(a), materials |-> materials]

\* obj_loader.rs load_material: alpha: obj_material.dissolve
load_material(alpha) == [alpha |-> alpha, bind_group |-> material_bind_group]

\* model.rs Material::new(renderer, name, texture, base_color, alpha): the uniform of
\* the bind group gets alpha, the field gets the literal 1.0
Material_new(alpha) == [alpha |-> AlphaOpaque, bind_group |-> material_bind_group]

\* the materials of the LoadedObj
LoadedMaterials(a) ==
    [i \in 1..Len(a.materials) |->
        IF a.via = "Material::new" THEN Material_new(a.materials[i])
        ELSE load_material(a.materials[i])]

\* obj_loader.rs load_material of every material of the file: Err when load_texture
\* fails (the ? operators), Ok(Material) otherwise
MaterialResults(a) ==
    [i \in 1..Len(a.materials) |->
        IF i \in a.broken THEN [ok |-> FALSE, material |-> None]
        ELSE [ok |-> TRUE, material |-> Some(LoadedMaterials(a)[i])]]

\* the closure of filter_map in load_obj: an Err is logged, then
\* res.as_ref().unwrap() is evaluated for the log line and panics on an Err;
\* res.ok() is reached by an Ok only
load_obj(a) ==
    LET results == MaterialResults(a)
        failed == {i \in DOMAIN results : ~results[i].ok}
    IN  IF failed # {}
        THEN [panic |-> TRUE, logged |-> {CHOOSE i \in failed : \A j \in failed : i <= j},
              materials |-> <<>>]
        ELSE [panic |-> FALSE, logged |-> {},
              materials |-> [i \in DOMAIN results |-> Unwrap(results[i].material)]]

\* obj_loader.rs generate_mesh: Ok(Model { meshes, materials })
generate_mesh(a) == [meshes |-> LoadedMeshes(a), materials |-> LoadedMaterials(a)]

\* main.rs spawn_light: one cube mesh (material_id 0), no material
LightModel == [meshes |-> <<[material_id |-> 0]>>, materials |-> <<>>]

(***************************************************************************)
(* Drawing a model (model.rs, light.rs).  render_pass is the state of the  *)
(* pass when the call is made: the pipeline set and the buffer bound at    *)
(* vertex slot 1.  Each operator gives the draws it records and whether it *)
(* panicked.                                                               *)
(***************************************************************************)
NoBuffer == [cap |-> 0, data |-> <<>>]

\* ModelMesh::draw_instanced
ModelMesh_draw_instanced(render_pass, mesh, instances, material, mesh_view_bind_group) ==
    [pipeline |-> render_pass.pipeline,
     entity |-> render_pass.entity,
     mesh |-> mesh,
     instances |-> instances,
     groups |-> <<mesh_view_bind_group, material.bind_group>>,
     vb1 |-> render_pass.vb1]

\* a loop body whose transparent branch does not test the alpha
DrawMesh_untested(model, render_pass, mesh, instances, mesh_view_bind_group, transparent) ==
    LET material == model.materials[model.meshes[mesh].material_id + 1]
        draw == ModelMesh_draw_instanced(render_pass, mesh, instances, material,
                                         mesh_view_bind_group)
    IN  (IF transparent THEN <<draw>> ELSE <<>>)
        \o (IF ~transparent /\ material.alpha = AlphaOpaque THEN <<draw>> ELSE <<>>)

\* a loop body whose opaque test lets every alpha from 1.0 upwards pass
DrawMesh_from_opaque_up(model, render_pass, mesh, instances, mesh_view_bind_group, transparent) ==
    LET material == model.materials[model.meshes[mesh].material_id + 1]
        draw == ModelMesh_draw_instanced(render_pass, mesh, instances, material,
                                         mesh_view_bind_group)
    IN  (IF transparent /\ material.alpha < AlphaOpaque THEN <<draw>> ELSE <<>>)
        \o (IF ~transparent /\ material.alpha >= AlphaOpaque THEN <<draw>> ELSE <<>>)

\* the body of the loop of Model::draw_instanced, for the mesh at index mesh
DrawMesh(model, render_pass, mesh, instances, mesh_view_bind_group, transparent) ==
    LET material == model.materials[model.meshes[mesh].material_id + 1]
        draw == ModelMesh_draw_instanced(render_pass, mesh, instances, material,
                                         mesh_view_bind_group)
    IN  (IF transparent /\ material.alpha < AlphaOpaque THEN <<draw>> ELSE <<>>)
        \o (IF ~transparent /\ material.alpha = AlphaOpaque THEN <<draw>> ELSE <<>>)

\* &self.materials[mesh.material_id] panics when the index is out of bounds
RECURSIVE DrawMeshesFrom(_, _, _, _, _, _)
DrawMeshesFrom(model, render_pass, mesh, instances, mesh_view_bind_group, transparent) ==
    IF mesh > Len(model.meshes) THEN [draws |-> <<>>, panic |-> FALSE]
    ELSE IF model.meshes[mesh].material_id >= Len(model.materials)
    THEN [draws |-> <<>>, panic |-> TRUE]
    ELSE LET rest == DrawMeshesFrom(model, render_pass, mesh + 1, instances,
                                    mesh_view_bind_group, transparent)
         IN  [draws |-> DrawMesh(model, render_pass, mesh, instances,
                                 mesh_view_bind_group, transparent) \o rest.draws,
              panic |-> rest.panic]

\* Model::draw_instanced
Model_draw_instanced(model, render_pass, instances, mesh_view_bind_group, transparent) ==
    DrawMeshesFrom(model, render_pass, 1, instances, mesh_view_bind_group, transparent)

\* Model::draw
Model_draw(model, render_pass, mesh_view_bind_group, transparent) ==
    Model_draw_instanced(model, render_pass, 1, mesh_view_bind_group, transparent)

\* a light draw that also binds a material
draw_light_mesh_with_material(render_pass, mesh, instances, camera_bg, light_bg) ==
    [pipeline |-> render_pass.pipeline,
     entity |-> render_pass.entity,
     mesh |-> mesh,
     instances |-> instances,
     groups |-> <<camera_bg, light_bg, material_bind_group>>,
     vb1 |-> render_pass.vb1]

\* light.rs draw_light_mesh_instanced
draw_light_mesh_instanced(render_pass, mesh, instances, camera_bg, light_bg) ==
    [pipeline |-> render_pass.pipeline,
     entity |-> render_pass.entity,
     mesh |-> mesh,
     instances |-> instances,
     groups |-> <<camera_bg, light_bg>>,
     vb1 |-> render_pass.vb1]

\* light.rs draw_light_model: draw_light_model_instanced with 0..1
draw_light_model(render_pass, model, camera_bg, light_bg) ==
    [mesh \in 1..Len(model.meshes) |->
        draw_light_mesh_instanced(render_pass, mesh, 1, camera_bg, light_bg)]

(***************************************************************************)
(* The world.  The light (spawn_light), the entity of the startup system   *)
(* spawn_instances (its model comes from load_model, its InstanceBuffer is *)
(* made on the spot) and the entities of handle_obj_loaded and             *)
(* handle_instanced_obj_loaded (their models come from generate_mesh).     *)
(***************************************************************************)
LightE == 0
StartupE == 1
ObjE == 2
InstE == 3
Entities == {LightE, StartupE, ObjE, InstE}
EntityOrder == <<LightE, StartupE, ObjE, InstE>>

Absent ==
    [present |-> FALSE, light |-> FALSE, transparent |-> FALSE,
     transform |-> None, instances |-> None, buffer |-> None]

ModelOf(e) ==
    IF e = LightE THEN LightModel
    ELSE IF e = StartupE THEN load_model(asset)
    ELSE generate_mesh(asset)

\* main.rs spawn_light: Light, Model, LightBuffer
spawn_light == [Absent EXCEPT !.present = TRUE, !.light = TRUE]

\* main.rs spawn_instances: NUM_INSTANCES_PER_ROW * NUM_INSTANCES_PER_ROW instances at
\* y = 0, written to the InstanceBuffer the entity is spawned with
spawn_instances ==
    LET n == NUM_INSTANCES_PER_ROW * NUM_INSTANCES_PER_ROW
    IN  [Absent EXCEPT !.present = TRUE,
                       !.buffer = Some([cap |-> n, data |-> Raw(Repeat(DefaultTransform, n))])]

\* the number of instances the entity has now
InstanceCount(e) ==
    IF IsSome(ent[e].instances) THEN Len(Unwrap(ent[e].instances)) ELSE 1

\* the matrices of the entity's current transforms
CurrentMatrices(e) ==
    IF IsSome(ent[e].instances) THEN Raw(Unwrap(ent[e].instances))
    ELSE IF IsSome(ent[e].transform) THEN <<to_raw(Unwrap(ent[e].transform))>>
    ELSE <<to_raw(DefaultTransform)>>

\* QueryState<(&Model, &InstanceBuffer, Option<&Instances>), (Without<Light>, Without<Transparent>)>
model_query ==
    LET Match(e) == /\ ent[e].present /\ IsSome(ent[e].buffer)
                    /\ ~ent[e].light /\ ~ent[e].transparent
    IN  SelectSeq(EntityOrder, Match)

\* QueryState<(...), (Without<Light>, With<Transparent>)>
transparent_model_query ==
    LET Match(e) == /\ ent[e].present /\ IsSome(ent[e].buffer)
                    /\ ~ent[e].light /\ ent[e].transparent
    IN  SelectSeq(EntityOrder, Match)

\* QueryState<&Model, With<Light>>
light_query ==
    LET Match(e) == ent[e].present /\ ent[e].light
    IN  SelectSeq(EntityOrder, Match)

(***************************************************************************)
(* Textures and the depth overlay (texture.rs, depth_pass/mod.rs).         *)
(***************************************************************************)
Sizes == [width : 1..MaxDim, height : 1..MaxDim]

\* Texture::create_depth_texture
create_depth_texture(cfg, id) ==
    [id |-> id, width |-> cfg.width, height |-> cfg.height, format |-> "Depth32Float"]

\* DepthPass::bind_group
DepthPass_bind_group(texture) ==
    [name |-> "depth_pass.bind_group", layout |-> DepthLayout,
     layout_object |-> create_bind_group_layout("depth_pass/mod.rs:70"),
     texture |-> texture.id]

\* DepthPass::new: the pass creates the texture it samples
DepthPass_new(cfg, id) ==
    LET texture == create_depth_texture(cfg, id)
    IN  [texture |-> texture, bind_group |-> DepthPass_bind_group(texture)]

\* a resize that replaces the texture of the pass and keeps the bind group it had
DepthPass_resize_stale_binding(cfg, id) ==
    [texture |-> create_depth_texture(cfg, id), bind_group |-> depthPass.bind_group]

\* DepthPass::resize(device, config)
DepthPass_resize(cfg, id) ==
    LET texture == create_depth_texture(cfg, id)
    IN  [texture |-> texture, bind_group |-> DepthPass_bind_group(texture)]

\* DepthPass::render
DepthPass_render ==
    [label |-> "Depth Visual Render Pass", color |-> "view", load |-> "Load", depth |-> None,
     draws |-> <<[pipeline |-> depth_render_pipeline, entity |-> LightE, mesh |-> 0,
                  instances |-> 1, groups |-> <<depthPass.bind_group>>,
                  vb1 |-> NoBuffer]>>]

(***************************************************************************)
(* The main pass (render_phase_3d.rs).                                     *)
(***************************************************************************)
\* a loop body that draws as many instances as the bound buffer holds
DrawEntity_by_capacity(e, pipeline, transparent) ==
    LET render_pass == [pipeline |-> pipeline, entity |-> e, vb1 |-> Unwrap(ent[e].buffer)]
    IN  Model_draw_instanced(ModelOf(e), render_pass, Unwrap(ent[e].buffer).cap,
                             camera_bind_group, transparent)

\* the body of the loops over model_query
DrawEntity(e, pipeline, transparent) ==
    LET render_pass == [pipeline |-> pipeline, entity |-> e, vb1 |-> Unwrap(ent[e].buffer)]
    IN  IF IsSome(ent[e].instances)
        THEN Model_draw_instanced(ModelOf(e), render_pass, Len(Unwrap(ent[e].instances)),
                                  camera_bind_group, transparent)
        ELSE Model_draw(ModelOf(e), render_pass, camera_bind_group, transparent)

RECURSIVE DrawEntitiesFrom(_, _, _, _)
DrawEntitiesFrom(query, i, pipeline, transparent) ==
    IF i > Len(query) THEN [draws |-> <<>>, panic |-> FALSE]
    ELSE LET one == DrawEntity(query[i], pipeline, transparent)
         IN  IF one.panic THEN one
             ELSE LET rest == DrawEntitiesFrom(query, i + 1, pipeline, transparent)
                  IN  [draws |-> one.draws \o rest.draws, panic |-> rest.panic]

\* the draws of the light loop
RECURSIVE DrawLightsFrom(_, _)
DrawLightsFrom(query, i) ==
    IF i > Len(query) THEN <<>>
    ELSE draw_light_model([pipeline |-> light_render_pipeline, entity |-> query[i],
                           vb1 |-> NoBuffer],
                          ModelOf(query[i]), camera_bind_group, light_bind_group)
         \o DrawLightsFrom(query, i + 1)

\* a pass that records the transparent loop before the opaque loop
OpaquePass_draws_swapped ==
    LET opaque == DrawEntitiesFrom(model_query, 1, render_pipeline, FALSE)
        transparent == DrawEntitiesFrom(model_query, 1, transparent_render_pipeline, TRUE)
    IN  IF transparent.panic THEN transparent
        ELSE [draws |-> transparent.draws \o opaque.draws \o DrawLightsFrom(light_query, 1),
              panic |-> FALSE]

\* OpaquePass::render: the draws of the pass, in the order they are recorded
OpaquePass_draws ==
    LET opaque == DrawEntitiesFrom(model_query, 1, render_pipeline, FALSE)
        transparent == DrawEntitiesFrom(model_query, 1, transparent_render_pipeline, TRUE)
    IN  IF opaque.panic THEN opaque
        ELSE IF transparent.panic
        THEN [draws |-> opaque.draws \o transparent.draws, panic |-> TRUE]
        ELSE [draws |-> opaque.draws \o transparent.draws \o DrawLightsFrom(light_query, 1),
              panic |-> FALSE]

\* OpaquePass::render: the entities each of its two loops over models iterates
OpaquePass_visits == [opaque |-> model_query, transparent |-> model_query]

\* OpaquePass::render
OpaquePass_render ==
    LET recorded == OpaquePass_draws
    IN  [pass |-> [label |-> "Opaque Render Pass", color |-> "view", load |-> "Clear",
                   depth |-> Some(depthTexture.id), draws |-> recorded.draws,
                   visits |-> OpaquePass_visits],
         panic |-> recorded.panic]

\* a render phase that records the overlay whatever the flag says
RenderPhase3d_render_unflagged ==
    LET main == OpaquePass_render
    IN  IF main.panic THEN [passes |-> <<main.pass>>, panic |-> TRUE]
        ELSE [passes |-> <<main.pass, DepthPass_render>>, panic |-> FALSE]

\* RenderPhase3d::render
RenderPhase3d_render ==
    LET main == OpaquePass_render
    IN  IF main.panic THEN [passes |-> <<main.pass>>, panic |-> TRUE]
        ELSE [passes |-> <<main.pass>> \o (IF showDepth THEN <<DepthPass_render>> ELSE <<>>),
              panic |-> FALSE]

(***************************************************************************)
(* The systems of the Update stage.  A system runs once per frame, in any  *)
(* order after the exclusive render system; its Commands are applied at    *)
(* the end of the stage.                                                   *)
(***************************************************************************)
MODEL_NAME == "MODEL_NAME"
INSTANCED_MODEL_NAME == "INSTANCED_MODEL_NAME"

Systems == {"handle_obj_loaded", "handle_instanced_obj_loaded", "create_instance_buffer",
            "update_instance_buffer", "scene", "resize", "update_show_depth"}

Running(system) == ~panicked /\ variant = "wgpu" /\ "render" \notin pending /\ system \in pending

Ran(system) == pending' = pending \ {system}

FrameVars == <<passes, lastFrame, submits, surfaceOk, failStreak, queue>>
SurfaceVars == <<window, events, config, depthTexture, depthPass, showDepth, texCount>>
StaticVars == <<variant, app, asset>>
CameraVars == <<keys, camera, camera_uniform, uniform_changed, camera_buffer>>
LightVars == <<light, light_buffer, animate_light>>
ViewVars == <<CameraVars, cameraWritten, cause, LightVars>>

\* the asset server finishes loading an OBJ: the task of ObjLoader::load either stores
\* the LoadedObj of load_obj or panics inside it
AssetLoaded ==
    /\ ~panicked /\ variant = "wgpu"
    /\ \E name \in {MODEL_NAME, INSTANCED_MODEL_NAME} \ (assetLoaded \cup load_panicked) :
           IF load_obj(asset).panic
           THEN load_panicked' = load_panicked \cup {name} /\ UNCHANGED assetLoaded
           ELSE assetLoaded' = assetLoaded \cup {name} /\ UNCHANGED load_panicked
    /\ UNCHANGED <<StaticVars, mesh_spawned, ent, commands, added, changed, pending,
                   FrameVars, panicked, lastWrite, SurfaceVars, ViewVars>>

\* the guard without the Local<bool>
returns_early_unless_loaded(spawned, loaded_obj_is_none) == loaded_obj_is_none

\* the early return of both handlers: if *mesh_spawned || loaded_obj.is_none()
returns_early(spawned, loaded_obj_is_none) == spawned \/ loaded_obj_is_none

\* obj_loader.rs handle_obj_loaded
handle_obj_loaded ==
    /\ Running("handle_obj_loaded") /\ Ran("handle_obj_loaded")
    /\ IF returns_early(mesh_spawned[MODEL_NAME], MODEL_NAME \notin assetLoaded)
       THEN UNCHANGED <<commands, mesh_spawned>>
       ELSE /\ commands' = Append(commands,
                   [op |-> "spawn", entity |-> ObjE,
                    bundle |-> [Absent EXCEPT !.present = TRUE,
                                              !.transform = Some(DefaultTransform)]])
            /\ mesh_spawned' = [mesh_spawned EXCEPT ![MODEL_NAME] = TRUE]
    /\ UNCHANGED <<StaticVars, assetLoaded, load_panicked, ent, added, changed, FrameVars, panicked,
                   lastWrite, SurfaceVars, ViewVars>>

\* obj_loader.rs handle_instanced_obj_loaded: (NUM_INSTANCES_PER_ROW + 1)^2 transforms
\* with translation.y = 0.0
handle_instanced_obj_loaded ==
    /\ Running("handle_instanced_obj_loaded") /\ Ran("handle_instanced_obj_loaded")
    /\ IF returns_early(mesh_spawned[INSTANCED_MODEL_NAME],
                        INSTANCED_MODEL_NAME \notin assetLoaded)
       THEN UNCHANGED <<commands, mesh_spawned>>
       ELSE LET n == (NUM_INSTANCES_PER_ROW + 1) * (NUM_INSTANCES_PER_ROW + 1)
            IN  /\ commands' = Append(commands,
                       [op |-> "spawn", entity |-> InstE,
                        bundle |-> [Absent EXCEPT !.present = TRUE,
                                        !.instances = Some(Repeat(DefaultTransform, n))]])
                /\ mesh_spawned' = [mesh_spawned EXCEPT ![INSTANCED_MODEL_NAME] = TRUE]
    /\ UNCHANGED <<StaticVars, assetLoaded, load_panicked, ent, added, changed, FrameVars, panicked,
                   lastWrite, SurfaceVars, ViewVars>>

\* device.create_buffer_init(contents): a buffer of exactly the contents
create_buffer_init(contents) == [cap |-> Len(contents), data |-> contents]

\* a query without the Added and Without<InstanceBuffer> filters: a buffer is built
\* for the instanced entity in every frame
RECURSIVE InstancedInserts_unfiltered(_)
InstancedInserts_unfiltered(i) ==
    IF i > Len(EntityOrder) THEN <<>>
    ELSE LET e == EntityOrder[i]
         IN  (IF /\ ent[e].present /\ ~ent[e].light
                 /\ IsSome(ent[e].instances) /\ ~IsSome(ent[e].transform)
              THEN <<[op |-> "insert", entity |-> e,
                      buffer |-> create_buffer_init(Raw(Unwrap(ent[e].instances)))]>>
              ELSE <<>>) \o InstancedInserts_unfiltered(i + 1)

\* the InstanceBuffer insertions create_instance_buffer queues, from entity i of
\* EntityOrder on: first the Added<Instances> query, then the Added<Transform> query
RECURSIVE InstancedInserts(_)
InstancedInserts(i) ==
    IF i > Len(EntityOrder) THEN <<>>
    ELSE LET e == EntityOrder[i]
         IN  (IF /\ ent[e].present /\ ~ent[e].light /\ "Instances" \in added[e]
                 /\ IsSome(ent[e].instances) /\ ~IsSome(ent[e].transform)
                 /\ ~IsSome(ent[e].buffer)
              THEN <<[op |-> "insert", entity |-> e,
                      buffer |-> create_buffer_init(Raw(Unwrap(ent[e].instances)))]>>
              ELSE <<>>) \o InstancedInserts(i + 1)

RECURSIVE SingleInserts(_)
SingleInserts(i) ==
    IF i > Len(EntityOrder) THEN <<>>
    ELSE LET e == EntityOrder[i]
         IN  (IF /\ ent[e].present /\ ~ent[e].light /\ "Transform" \in added[e]
                 /\ IsSome(ent[e].transform) /\ ~IsSome(ent[e].instances)
                 /\ ~IsSome(ent[e].buffer)
              THEN <<[op |-> "insert", entity |-> e,
                      buffer |-> create_buffer_init(<<to_raw(Unwrap(ent[e].transform))>>)]>>
              ELSE <<>>) \o SingleInserts(i + 1)

\* instances.rs create_instance_buffer
create_instance_buffer ==
    /\ Running("create_instance_buffer") /\ Ran("create_instance_buffer")
    /\ commands' = commands \o InstancedInserts(1) \o SingleInserts(1)
    /\ added' = [e \in Entities |-> {}]
    /\ UNCHANGED <<StaticVars, assetLoaded, load_panicked, mesh_spawned, ent, changed, FrameVars,
                   panicked, lastWrite, SurfaceVars, ViewVars>>

\* queue.write_buffer(buffer, 0, data): a write that does not fit the buffer is
\* refused by the queue and leaves the buffer as it was
write_buffer(buffer, data) ==
    IF Len(data) <= buffer.cap
    THEN [buffer EXCEPT !.data = data \o SubSeq(buffer.data, Len(data) + 1, buffer.cap)]
    ELSE buffer

\* Query<(&InstanceBuffer, &Instances), Changed<Instances>>
update_query(e) ==
    /\ ent[e].present /\ IsSome(ent[e].buffer) /\ IsSome(ent[e].instances)
    /\ changed[e]

\* instances.rs update_instance_buffer
update_instance_buffer ==
    /\ Running("update_instance_buffer") /\ Ran("update_instance_buffer")
    /\ ent' = [e \in Entities |->
                  IF update_query(e)
                  THEN [ent[e] EXCEPT !.buffer =
                           Some(write_buffer(Unwrap(ent[e].buffer),
                                             Raw(Unwrap(ent[e].instances))))]
                  ELSE ent[e]]
    /\ lastWrite' = [e \in Entities |->
                        IF update_query(e)
                        THEN Some([len |-> Len(Unwrap(ent[e].instances)),
                                   cap |-> Unwrap(ent[e].buffer).cap])
                        ELSE None]
    /\ changed' = [e \in Entities |-> FALSE]
    /\ UNCHANGED <<StaticVars, assetLoaded, load_panicked, mesh_spawned, commands, added, FrameVars,
                   panicked, SurfaceVars, ViewVars>>

(***************************************************************************)
(* Scene authoring: the systems outside the renderer that move the scene   *)
(* (the wave system of the Wave component, an editor).  One mutation per   *)
(* frame.  Writing through Mut<Instances> marks the component changed;     *)
(* no system of the renderer observes a change of a Transform.             *)
(***************************************************************************)
\* every instance is moved along y, the number of instances stays
move_instances ==
    /\ Running("scene") /\ Ran("scene")
    /\ \E e \in Entities, y \in 0..MaxTranslation :
           /\ ent[e].present /\ IsSome(ent[e].instances)
           /\ ent' = [ent EXCEPT ![e].instances =
                         Some([i \in 1..Len(Unwrap(ent[e].instances)) |->
                                  [Unwrap(ent[e].instances)[i] EXCEPT !.translation[2] = y]])]
           /\ changed' = [changed EXCEPT ![e] = TRUE]
    /\ UNCHANGED <<StaticVars, assetLoaded, load_panicked, mesh_spawned, commands, added, FrameVars,
                   panicked, lastWrite, SurfaceVars, ViewVars>>

\* the Instances list is replaced by one of another length
SetInstances ==
    /\ Running("scene") /\ Ran("scene")
    /\ \E e \in Entities, list \in InstLists :
           /\ ent[e].present /\ IsSome(ent[e].instances)
           /\ Len(list) # Len(Unwrap(ent[e].instances))
           /\ ent' = [ent EXCEPT ![e].instances = Some(list)]
           /\ changed' = [changed EXCEPT ![e] = TRUE]
    /\ UNCHANGED <<StaticVars, assetLoaded, load_panicked, mesh_spawned, commands, added, FrameVars,
                   panicked, lastWrite, SurfaceVars, ViewVars>>

\* the Transform of a single-transform entity is set
SetTransform ==
    /\ Running("scene") /\ Ran("scene")
    /\ \E e \in Entities, t \in TransformVals :
           /\ ent[e].present /\ IsSome(ent[e].transform)
           /\ t # Unwrap(ent[e].transform)
           /\ ent' = [ent EXCEPT ![e].transform = Some(t)]
    /\ UNCHANGED <<StaticVars, assetLoaded, load_panicked, mesh_spawned, commands, added, changed,
                   FrameVars, panicked, lastWrite, SurfaceVars, ViewVars>>

\* the transforms an author can give an instance: moved, turned, scaled unevenly
AuthoredTransforms ==
    {[translation |-> <<1, 2>>, rotation |-> 1, scale |-> <<1, 2>>],
     [translation |-> <<0, 1>>, rotation |-> 0, scale |-> <<2, 1>>],
     [translation |-> <<0, 0>>, rotation |-> 3, scale |-> <<1, 1>>]}

AuthoredLists ==
    {<<t>> : t \in AuthoredTransforms} \cup {<<t, u>> : t, u \in AuthoredTransforms}

\* the Instances list is replaced by an authored one
AuthorInstances ==
    /\ Running("scene") /\ Ran("scene")
    /\ \E e \in Entities, list \in AuthoredLists :
           /\ ent[e].present /\ IsSome(ent[e].instances)
           /\ ent' = [ent EXCEPT ![e].instances = Some(list)]
           /\ changed' = [changed EXCEPT ![e] = TRUE]
    /\ UNCHANGED <<StaticVars, assetLoaded, load_panicked, mesh_spawned, commands, added, FrameVars,
                   panicked, lastWrite, SurfaceVars, ViewVars>>

\* the Transparent marker is inserted on a model entity
TagTransparent ==
    /\ Running("scene") /\ Ran("scene")
    /\ \E e \in Entities :
           /\ ent[e].present /\ ~ent[e].light /\ ~ent[e].transparent
           /\ commands' = Append(commands, [op |-> "insert_transparent", entity |-> e])
    /\ UNCHANGED <<StaticVars, assetLoaded, load_panicked, mesh_spawned, ent, added, changed, FrameVars,
                   panicked, lastWrite, SurfaceVars, ViewVars>>

\* an entity is spawned with a Model, a Transform and an Instances list
SpawnBoth ==
    /\ Running("scene") /\ Ran("scene")
    /\ ~ent[ObjE].present
    /\ \A i \in DOMAIN commands : commands[i].entity # ObjE
    /\ commands' = Append(commands,
           [op |-> "spawn", entity |-> ObjE,
            bundle |-> [Absent EXCEPT !.present = TRUE,
                                      !.transform = Some(DefaultTransform),
                                      !.instances = Some(<<DefaultTransform>>)]])
    /\ UNCHANGED <<StaticVars, assetLoaded, load_panicked, mesh_spawned, ent, added, changed, FrameVars,
                   panicked, lastWrite, SurfaceVars, ViewVars>>

\* the scene is left alone this frame
SceneIdle ==
    /\ Running("scene") /\ Ran("scene")
    /\ UNCHANGED <<StaticVars, assetLoaded, load_panicked, mesh_spawned, ent, commands, added, changed,
                   FrameVars, panicked, lastWrite, SurfaceVars, ViewVars>>

(***************************************************************************)
(* Camera and light (main.rs, camera.rs).  The eye is a position along the *)
(* direction of movement, the aspect the size it is computed from; the     *)
(* light's position is its angle around the y axis, in steps of one frame. *)
(***************************************************************************)
MaxEye == 2
LightSteps == 4

\* main.rs setup: the Camera literal, aspect from the surface configuration
Camera_new(size) == [eye |-> 0, aspect |-> size]

\* Camera::build_view_projection_matrix: proj * view.inverse()
build_view_projection_matrix(cam) == [proj |-> cam.aspect, view_inverse |-> 0 - cam.eye]

\* CameraUniform::update_view_proj
update_view_proj(cam) ==
    [view_position |-> cam.eye, view_proj |-> build_view_projection_matrix(cam)]

\* Light::new(LIGHT_POSITION, Color::WHITE)
Light_new == [position |-> 0]

\* the keyboard: a movement key is pressed or released
Keyboard ==
    /\ ~panicked /\ variant = "wgpu"
    /\ keys' = ~keys
    /\ UNCHANGED <<StaticVars, assetLoaded, load_panicked, mesh_spawned, ent, commands, added, changed,
                   pending, FrameVars, panicked, lastWrite, SurfaceVars, camera,
                   camera_uniform, uniform_changed, camera_buffer, cameraWritten, cause,
                   LightVars>>

\* main.rs update_camera: the controller moves the camera while a key is held; the
\* uniform is recomputed through ResMut in every run
update_camera ==
    /\ Running("update_camera") /\ Ran("update_camera")
    /\ keys => camera.eye < MaxEye
    /\ camera' = IF keys THEN [camera EXCEPT !.eye = @ + 1] ELSE camera
    /\ camera_uniform' = update_view_proj(camera')
    /\ uniform_changed' = TRUE
    /\ cause' = IF keys THEN cause \cup {"input"} ELSE cause
    /\ UNCHANGED <<StaticVars, assetLoaded, load_panicked, mesh_spawned, ent, commands, added, changed,
                   FrameVars, panicked, lastWrite, SurfaceVars, keys, camera_buffer,
                   cameraWritten, LightVars>>

\* a write that adds the bytes to what the buffer holds
write_uniform_relative(buffer, bytes) ==
    [buffer EXCEPT !.view_position = @ + bytes.view_position]

\* queue.write_buffer(&camera_buffer.0, 0, bytemuck::cast_slice(&[*camera_uniform])):
\* all fields of the uniform are overwritten from offset 0
write_uniform(buffer, bytes) == [field \in DOMAIN buffer |-> bytes[field]]

\* main.rs update_camera_buffer
update_camera_buffer ==
    /\ Running("update_camera_buffer") /\ Ran("update_camera_buffer")
    /\ IF uniform_changed
       THEN /\ camera_buffer' = write_uniform(camera_buffer, camera_uniform)
            /\ cameraWritten' = TRUE
       ELSE UNCHANGED <<camera_buffer, cameraWritten>>
    /\ uniform_changed' = FALSE
    /\ UNCHANGED <<StaticVars, assetLoaded, load_panicked, mesh_spawned, ent, commands, added, changed,
                   FrameVars, panicked, lastWrite, SurfaceVars, keys, camera,
                   camera_uniform, cause, LightVars>>

\* Query<(&mut Light, &LightBuffer)>
update_light_query(e) == ent[e].present /\ ent[e].light

\* main.rs update_light: the light is turned around the y axis and uploaded
update_light ==
    /\ Running("update_light") /\ Ran("update_light")
    /\ IF \E e \in Entities : update_light_query(e)
       THEN LET moved == [light EXCEPT !.position = (@ + 1) % LightSteps]
            IN  light' = moved /\ light_buffer' = moved
       ELSE UNCHANGED <<light, light_buffer>>
    /\ UNCHANGED <<StaticVars, assetLoaded, load_panicked, mesh_spawned, ent, commands, added, changed,
                   FrameVars, panicked, lastWrite, SurfaceVars, CameraVars, cameraWritten,
                   cause, animate_light>>

\* the "animate light" setting is switched
SetAnimateLight ==
    /\ ~panicked /\ variant = "wgpu"
    /\ animate_light' = ~animate_light
    /\ UNCHANGED <<StaticVars, assetLoaded, load_panicked, mesh_spawned, ent, commands, added, changed,
                   pending, FrameVars, panicked, lastWrite, SurfaceVars, CameraVars,
                   cameraWritten, cause, light, light_buffer>>

(***************************************************************************)
(* Resize and the overlay flag (main.rs).                                  *)
(***************************************************************************)
\* the window system resizes the window and sends WindowResized
OsResize ==
    /\ ~panicked /\ variant = "wgpu"
    /\ texCount + 2 * (events + 1) <= 2 + 2 * MaxResizes
    /\ \E size \in Sizes \ {window} : window' = size
    /\ events' = events + 1
    /\ UNCHANGED <<StaticVars, assetLoaded, load_panicked, mesh_spawned, ent, commands, added, changed,
                   pending, FrameVars, panicked, lastWrite, config, depthTexture,
                   depthPass, showDepth, texCount, ViewVars>>

\* the body of the loop of resize, run for each of n events: the size is read from
\* the window, the surface is reconfigured, the DepthTexture resource is replaced and
\* the DepthPass is resized
\* a loop that reconfigures the surface and keeps the depth texture it had
ResizeLoop_config_only(n, s) ==
    IF n = 0 THEN s ELSE [s EXCEPT !.config = window]

\* one pass through the body of the loop of resize, the window having the given size
ResizeEvent(s, size) ==
    [config |-> size,
     depthTexture |-> create_depth_texture(size, s.texCount + 1),
     depthPass |-> DepthPass_resize(size, s.texCount + 2),
     texCount |-> s.texCount + 2]

RECURSIVE ResizeLoop(_, _)
ResizeLoop(n, s) ==
    IF n = 0 THEN s
    ELSE ResizeLoop(n - 1, ResizeEvent(s, window))

\* main.rs resize
resize ==
    /\ Running("resize") /\ Ran("resize")
    /\ LET s == ResizeLoop(events, [config |-> config, depthTexture |-> depthTexture,
                                    depthPass |-> depthPass, texCount |-> texCount])
       IN  /\ config' = s.config
           /\ depthTexture' = s.depthTexture
           /\ depthPass' = s.depthPass
           /\ texCount' = s.texCount
    /\ events' = 0
    /\ IF events > 0
       THEN /\ camera' = [camera EXCEPT !.aspect = window]
            /\ camera_uniform' = update_view_proj(camera')
            /\ uniform_changed' = TRUE
            /\ cause' = cause \cup {"resize"}
       ELSE UNCHANGED <<camera, camera_uniform, uniform_changed, cause>>
    /\ UNCHANGED <<StaticVars, assetLoaded, load_panicked, mesh_spawned, ent, commands, added, changed,
                   FrameVars, panicked, lastWrite, window, showDepth, keys, camera_buffer,
                   cameraWritten, LightVars>>

\* main.rs update_show_depth: the flag is toggled when the key was just pressed
update_show_depth ==
    /\ Running("update_show_depth") /\ Ran("update_show_depth")
    /\ \E just_pressed \in BOOLEAN :
           showDepth' = IF just_pressed THEN ~showDepth ELSE showDepth
    /\ UNCHANGED <<StaticVars, assetLoaded, load_panicked, mesh_spawned, ent, commands, added, changed,
                   FrameVars, panicked, lastWrite, window, events, config, depthTexture,
                   depthPass, texCount, ViewVars>>

(***************************************************************************)
(* The frame orchestrators.  acquired is the outcome of the acquisition of *)
(* the next frame target: it fails while the surface is lost or outdated.  *)
(***************************************************************************)
\* the surface becomes lost or outdated
SurfaceLost ==
    /\ ~panicked /\ surfaceOk
    /\ surfaceOk' = FALSE
    /\ UNCHANGED <<StaticVars, assetLoaded, load_panicked, mesh_spawned, ent, commands, added, changed,
                   pending, passes, lastFrame, submits, failStreak, queue, panicked,
                   lastWrite, SurfaceVars, ViewVars>>

\* the surface is usable again
SurfaceRestored ==
    /\ ~panicked /\ ~surfaceOk
    /\ surfaceOk' = TRUE
    /\ UNCHANGED <<StaticVars, assetLoaded, load_panicked, mesh_spawned, ent, commands, added, changed,
                   pending, passes, lastFrame, submits, failStreak, queue, panicked,
                   lastWrite, SurfaceVars, ViewVars>>

\* encoder.finish(): the command buffer of an encoder and the passes recorded in it
CommandBuffer(encoder, recorded) ==
    [encoder |-> encoder, work |-> [p \in DOMAIN recorded |-> recorded[p].label]]

\* WgpuRenderer::render(world): acquire, record the render phase in one encoder,
\* submit it, present; a failed acquisition is returned as Err
WgpuRenderer_render(acquired) ==
    IF ~acquired THEN [outcome |-> "Err", passes |-> <<>>, submits |-> 0, queue |-> <<>>]
    ELSE LET phase == RenderPhase3d_render
         IN  IF phase.panic
             THEN [outcome |-> "panic", passes |-> phase.passes, submits |-> 0,
                   queue |-> <<>>]
             ELSE [outcome |-> "Ok", passes |-> phase.passes, submits |-> 1,
                   queue |-> <<CommandBuffer("encoder", phase.passes)>>]

\* state.rs State::render: get_next_texture().expect("Failed to get texture")
State_render(acquired) ==
    IF ~acquired THEN [outcome |-> "panic", passes |-> <<>>, submits |-> 0, queue |-> <<>>]
    ELSE LET recorded == <<[label |-> "glyph_brush", color |-> "view", load |-> "Load",
                            depth |-> None, draws |-> <<>>]>>
         IN  [outcome |-> "Ok", passes |-> recorded, submits |-> 1,
              queue |-> <<CommandBuffer("Render Encoder", recorded)>>]

\* renderer.rs Renderer::render: Err(e) => { eprintln!("dropped frame"); return; }
Renderer_render(acquired) ==
    IF ~acquired THEN [outcome |-> "Err", passes |-> <<>>, submits |-> 0, queue |-> <<>>]
    ELSE LET recorded == <<[label |-> "Render Pass", color |-> "view", load |-> "Clear",
                            depth |-> Some(0), draws |-> <<>>]>>
         IN  [outcome |-> "Ok", passes |-> recorded, submits |-> 1,
              queue |-> <<CommandBuffer("Render Encoder", recorded)>>]

\* renderer.rs Renderer::update: the uniforms are copied from a staging buffer in an
\* encoder of their own, which is finished and submitted
Renderer_update == <<[encoder |-> "update encoder", work |-> <<"copy_buffer_to_buffer">>]>>

\* what a call of render leaves behind; the app of main.rs and State submit nothing
\* else in a frame, Renderer has submitted its update before
Frame(result) ==
    /\ passes' = result.passes
    /\ queue' = IF variant = "renderer" THEN queue \o result.queue ELSE result.queue
    /\ submits' = result.submits
    /\ lastFrame' = CASE result.outcome = "Ok" -> "rendered"
                      [] result.outcome = "Err" -> "abandoned"
                      [] OTHER -> "panicked"
    /\ panicked' = (result.outcome = "panic")
    /\ failStreak' = IF surfaceOk THEN 0 ELSE Min(failStreak + 1, MaxFailStreak)
    /\ UNCHANGED surfaceOk

\* main.rs render, the exclusive system: if let Err(e) = renderer.render(world) { log::error! }
render ==
    /\ ~panicked /\ variant = "wgpu" /\ "render" \in pending
    /\ pending' = pending \ {"render"}
    /\ Frame(WgpuRenderer_render(surfaceOk))
    /\ UNCHANGED <<StaticVars, assetLoaded, load_panicked, mesh_spawned, ent, commands, added, changed,
                   lastWrite, SurfaceVars, ViewVars>>

\* a frame of the event loop that drives State
StateFrame ==
    /\ ~panicked /\ variant = "state"
    /\ Frame(State_render(surfaceOk))
    /\ UNCHANGED <<StaticVars, assetLoaded, load_panicked, mesh_spawned, ent, commands, added, changed,
                   pending, lastWrite, SurfaceVars, ViewVars>>

\* the event loop that drives Renderer begins a frame with update
RendererUpdate ==
    /\ ~panicked /\ variant = "renderer" /\ queue # Renderer_update
    /\ queue' = Renderer_update
    /\ UNCHANGED <<StaticVars, assetLoaded, load_panicked, mesh_spawned, ent, commands, added, changed,
                   pending, passes, lastFrame, submits, surfaceOk, failStreak, panicked,
                   lastWrite, SurfaceVars, ViewVars>>

\* a frame of the event loop that drives Renderer, after update
RendererFrame ==
    /\ ~panicked /\ variant = "renderer" /\ queue = Renderer_update
    /\ Frame(Renderer_render(surfaceOk))
    /\ UNCHANGED <<StaticVars, assetLoaded, load_panicked, mesh_spawned, ent, commands, added, changed,
                   pending, lastWrite, SurfaceVars, ViewVars>>

(***************************************************************************)
(* The end of the stage: the queued Commands are applied in order and the  *)
(* next frame begins.                                                      *)
(***************************************************************************)
RECURSIVE ApplyCommands(_, _, _)
ApplyCommands(world, cmds, i) ==
    IF i > Len(cmds) THEN world
    ELSE LET c == cmds[i]
         IN  ApplyCommands(
                 IF c.op = "spawn" THEN [world EXCEPT ![c.entity] = c.bundle]
                 ELSE IF c.op = "insert" THEN [world EXCEPT ![c.entity].buffer = Some(c.buffer)]
                 ELSE [world EXCEPT ![c.entity].transparent = TRUE],
                 cmds, i + 1)

\* the components a spawn command adds to the entity
AddedBy(cmds, e) ==
    UNION {(IF IsSome(cmds[i].bundle.transform) THEN {"Transform"} ELSE {})
           \cup (IF IsSome(cmds[i].bundle.instances) THEN {"Instances"} ELSE {})
              : i \in {j \in 1..Len(cmds) : cmds[j].op = "spawn" /\ cmds[j].entity = e}}

EndFrame ==
    /\ ~panicked /\ variant = "wgpu" /\ pending = {}
    /\ ent' = ApplyCommands(ent, commands, 1)
    /\ added' = [e \in Entities |-> added[e] \cup AddedBy(commands, e)]
    /\ changed' = [e \in Entities |-> changed[e] \/ "Instances" \in AddedBy(commands, e)]
    /\ commands' = <<>>
    /\ pending' = {"render"} \cup app
    /\ cameraWritten' = FALSE
    /\ cause' = {}
    /\ UNCHANGED <<StaticVars, assetLoaded, load_panicked, mesh_spawned, FrameVars, panicked, lastWrite,
                   SurfaceVars, CameraVars, LightVars>>

(***************************************************************************)
(* Initial states and specifications.                                      *)
(***************************************************************************)
InitialSize == [width |-> 1, height |-> 1]

InitWith(variants, assets, systems) ==
    /\ variant \in variants
    /\ asset \in assets
    /\ app = IF variant = "wgpu" THEN systems ELSE {}
    /\ pending = IF variant = "wgpu" THEN {"render"} \cup systems ELSE {}
    /\ assetLoaded = {}
    /\ load_panicked = {}
    /\ mesh_spawned = [name \in {MODEL_NAME, INSTANCED_MODEL_NAME} |-> FALSE]
    /\ ent = [e \in Entities |->
                 IF e = LightE THEN spawn_light
                 ELSE IF e = StartupE THEN spawn_instances
                 ELSE Absent]
    /\ commands = <<>>
    /\ added = [e \in Entities |-> {}]
    /\ changed = [e \in Entities |-> FALSE]
    /\ passes = <<>>
    /\ lastFrame = "none"
    /\ submits = 0
    /\ surfaceOk = TRUE
    /\ failStreak = 0
    /\ panicked = FALSE
    /\ lastWrite = [e \in Entities |-> None]
    /\ window = InitialSize
    /\ events = 0
    /\ config = InitialSize
    /\ depthTexture = create_depth_texture(InitialSize, 1)
    /\ depthPass = DepthPass_new(InitialSize, 2)
    /\ showDepth = FALSE
    /\ texCount = 2
    /\ keys = FALSE
    /\ camera = Camera_new(InitialSize)
    /\ camera_uniform = update_view_proj(Camera_new(InitialSize))
    /\ uniform_changed = TRUE
    /\ camera_buffer = update_view_proj(Camera_new(InitialSize))
    /\ cameraWritten = FALSE
    /\ cause = {"setup"}
    /\ light = Light_new
    /\ light_buffer = Light_new
    /\ animate_light = FALSE
    /\ queue = <<>>

\* an OBJ with one opaque material and one mesh that names it
PlainAsset == [materials |-> <<AlphaOpaque>>, meshes |-> <<Some(0)>>, via |-> "load_material",
               broken |-> {}]

SceneSystems == {"handle_instanced_obj_loaded", "create_instance_buffer",
                 "update_instance_buffer", "scene"}
TransformSystems == {"handle_obj_loaded", "create_instance_buffer",
                     "update_instance_buffer", "scene"}
DrawSystems == {"handle_obj_loaded", "handle_instanced_obj_loaded",
                "create_instance_buffer"}
SurfaceSystems == {"resize", "update_show_depth"}

\* the instanced entity over time: loading, its instance buffer, mutations of Instances
Init == InitWith({"wgpu"}, {PlainAsset}, SceneSystems)

Next ==
    \/ AssetLoaded
    \/ handle_instanced_obj_loaded
    \/ create_instance_buffer
    \/ update_instance_buffer
    \/ move_instances
    \/ SetInstances
    \/ SceneIdle
    \/ render
    \/ EndFrame

Spec == Init /\ [][Next]_vars

\* the single-transform entity over time
InitTransform == InitWith({"wgpu"}, {PlainAsset}, TransformSystems)

NextTransform ==
    \/ AssetLoaded
    \/ handle_obj_loaded
    \/ create_instance_buffer
    \/ update_instance_buffer
    \/ SetTransform
    \/ TagTransparent
    \/ SceneIdle
    \/ render
    \/ EndFrame

SpecTransform == InitTransform /\ [][NextTransform]_vars

\* the instanced entity is given authored transforms and its buffer is refreshed
InitMatrix == InitWith({"wgpu"}, {PlainAsset}, SceneSystems)

NextMatrix ==
    \/ AssetLoaded
    \/ handle_instanced_obj_loaded
    \/ create_instance_buffer
    \/ update_instance_buffer
    \/ AuthorInstances
    \/ SceneIdle
    \/ render
    \/ EndFrame

SpecMatrix == InitMatrix /\ [][NextMatrix]_vars

\* the camera and the light of main.rs while the window is resized and keys are held
ViewSystems == {"resize", "update_camera", "update_light", "update_camera_buffer"}

InitView == InitWith({"wgpu"}, {PlainAsset}, ViewSystems)

NextView ==
    \/ OsResize
    \/ Keyboard
    \/ SetAnimateLight
    \/ resize
    \/ update_camera
    \/ update_light
    \/ update_camera_buffer
    \/ render
    \/ EndFrame

SpecView == InitView /\ [][NextView]_vars

\* the camera of main.rs alone: keys are pressed and released while frames run
CameraSystems == {"update_camera", "update_camera_buffer"}

InitCamera == InitWith({"wgpu"}, {PlainAsset}, CameraSystems)

NextCamera ==
    \/ Keyboard
    \/ update_camera
    \/ update_camera_buffer
    \/ render
    \/ EndFrame

SpecCamera == InitCamera /\ [][NextCamera]_vars

\* entities are spawned by the loader and by the scene, which gives its entity both
\* a Transform and an Instances list; the schedule runs every system in every frame
SpawnSystems == {"handle_instanced_obj_loaded", "create_instance_buffer", "scene"}

InitSpawn == InitWith({"wgpu"}, {PlainAsset}, SpawnSystems)

NextSpawn ==
    \/ AssetLoaded
    \/ handle_instanced_obj_loaded
    \/ create_instance_buffer
    \/ SpawnBoth
    \/ SceneIdle
    \/ render
    \/ EndFrame

FairSpawn ==
    /\ WF_vars(AssetLoaded)
    /\ WF_vars(handle_instanced_obj_loaded)
    /\ WF_vars(create_instance_buffer)
    /\ WF_vars(SpawnBoth \/ SceneIdle)
    /\ WF_vars(render)
    /\ WF_vars(EndFrame)

SpecSpawn == InitSpawn /\ [][NextSpawn]_vars /\ FairSpawn

\* both loaded entities while the number of instances changes
CountSystems == {"handle_obj_loaded", "handle_instanced_obj_loaded",
                 "create_instance_buffer", "scene"}

InitCount == InitWith({"wgpu"}, {PlainAsset}, CountSystems)

NextCount ==
    \/ AssetLoaded
    \/ handle_obj_loaded
    \/ handle_instanced_obj_loaded
    \/ create_instance_buffer
    \/ SetInstances
    \/ SceneIdle
    \/ render
    \/ EndFrame

SpecCount == InitCount /\ [][NextCount]_vars

\* every OBJ within the bounds, loaded and drawn
InitDraw == InitWith({"wgpu"}, Assets, DrawSystems)

NextDraw ==
    \/ AssetLoaded
    \/ handle_obj_loaded
    \/ handle_instanced_obj_loaded
    \/ create_instance_buffer
    \/ render
    \/ EndFrame

SpecDraw == InitDraw /\ [][NextDraw]_vars

\* every OBJ within the bounds, its materials built by Material::new
InitMaterial == InitWith({"wgpu"}, AssetsVia("Material::new"), DrawSystems)

SpecMaterial == InitMaterial /\ [][NextDraw]_vars

\* the draw specification over OBJ files with materials that fail to load
InitLoad == InitWith({"wgpu"}, BrokenAssets, DrawSystems)

SpecLoad == InitLoad /\ [][NextDraw]_vars

\* the draw specification over materials of every alpha
InitAlpha == InitWith({"wgpu"}, AlphaAssets, DrawSystems)

SpecAlpha == InitAlpha /\ [][NextDraw]_vars

\* the surface fails under each of the three orchestrators
AcquireSystems == {"handle_obj_loaded", "create_instance_buffer"}

InitAcquire == InitWith({"wgpu", "renderer", "state"}, {PlainAsset}, AcquireSystems)

NextAcquire ==
    \/ SurfaceLost
    \/ SurfaceRestored
    \/ AssetLoaded
    \/ handle_obj_loaded
    \/ create_instance_buffer
    \/ render
    \/ StateFrame
    \/ RendererUpdate
    \/ RendererFrame
    \/ EndFrame

SpecAcquire == InitAcquire /\ [][NextAcquire]_vars

\* the window is resized and the overlay toggled while frames are rendered
InitSurface == InitWith({"wgpu"}, {PlainAsset}, SurfaceSystems)

NextSurface ==
    \/ OsResize
    \/ resize
    \/ update_show_depth
    \/ render
    \/ EndFrame

SpecSurface == InitSurface /\ [][NextSurface]_vars

(***************************************************************************)
(* Properties.                                                             *)
(***************************************************************************)
\* the draws of the main pass of the last call of render
MainDraws ==
    IF passes # <<>> /\ passes[1].label = "Opaque Render Pass" THEN passes[1].draws
    ELSE <<>>

\* render has returned and no system has run since: the world is the one it drew
JustRendered == variant = "wgpu" /\ lastFrame = "rendered" /\ pending = app

\* render has panicked while drawing the world
JustPanicked == variant = "wgpu" /\ lastFrame = "panicked"

\* the entities the loops of the main pass visit
Visited == {model_query[i] : i \in 1..Len(model_query)}

\* the number of draws of a sub-mesh of an entity recorded with a pipeline
DrawCount(name, e, mesh) ==
    Cardinality({i \in DOMAIN MainDraws :
                    /\ MainDraws[i].pipeline.name = name
                    /\ MainDraws[i].entity = e
                    /\ MainDraws[i].mesh = mesh})

\* the alpha of the material a sub-mesh of a model names
AlphaOf(model, mesh) == model.materials[model.meshes[mesh].material_id + 1].alpha

\* C1: in the main pass of every frame, every opaque draw call is recorded before
\* any transparent draw call.
C1_OpaqueBeforeTransparent ==
    \A i, j \in DOMAIN MainDraws :
        (MainDraws[i].pipeline.name = "opaque" /\ MainDraws[j].pipeline.name = "transparent")
            => i < j

\* a frame with opaque and transparent draws of both loaded entities
C1_Witness ==
    /\ JustRendered
    /\ \E i, j \in DOMAIN MainDraws :
           /\ MainDraws[i].pipeline.name = "opaque" /\ MainDraws[i].entity = InstE
           /\ MainDraws[j].pipeline.name = "transparent" /\ MainDraws[j].entity = ObjE

\* C2: in a rendered frame, a sub-mesh of a visited model whose material has alpha 1.0
\* is drawn exactly once with the opaque pipeline and never with the transparent one;
\* with alpha < 1.0 it is drawn exactly once with the transparent pipeline and never
\* with the opaque one (so k opaque and m transparent sub-meshes give k and m draws).
C2_AlphaPartition ==
    JustRendered =>
        \A e \in Visited : \A mesh \in DOMAIN ModelOf(e).meshes :
            /\ AlphaOf(ModelOf(e), mesh) = AlphaOpaque =>
                   DrawCount("opaque", e, mesh) = 1 /\ DrawCount("transparent", e, mesh) = 0
            /\ AlphaOf(ModelOf(e), mesh) < AlphaOpaque =>
                   DrawCount("transparent", e, mesh) = 1 /\ DrawCount("opaque", e, mesh) = 0

\* a rendered frame that visits a model with an opaque and a transparent sub-mesh
C2_Witness ==
    /\ JustRendered
    /\ InstE \in Visited
    /\ \E m1, m2 \in DOMAIN ModelOf(InstE).meshes :
           /\ AlphaOf(ModelOf(InstE), m1) = AlphaOpaque
           /\ AlphaOf(ModelOf(InstE), m2) < AlphaOpaque
           /\ DrawCount("opaque", InstE, m1) = 1
           /\ DrawCount("transparent", InstE, m2) = 1

\* C7: a loaded model whose material list is empty gets one default opaque material:
\* when it is drawn, the frame completes and each of its meshes is drawn exactly once
\* with the opaque pipeline and never with the transparent one, whichever loader
\* built the model.
C7_EmptyMaterialsGetDefault ==
    (asset.materials = <<>> /\ (JustRendered \/ JustPanicked)) =>
        /\ ~panicked
        /\ \A e \in Visited : \A mesh \in DOMAIN ModelOf(e).meshes :
               DrawCount("opaque", e, mesh) = 1 /\ DrawCount("transparent", e, mesh) = 0

\* C8: drawing a model never fails on a sub-mesh whose material index does not
\* resolve to an entry of the model's material list: the frame still completes.
C8_UnresolvedMaterialNeverFails ==
    \A e \in Visited :
        (\E mesh \in DOMAIN ModelOf(e).meshes :
             ModelOf(e).meshes[mesh].material_id >= Len(ModelOf(e).materials))
            => lastFrame # "panicked"

ReadMatrices(draw) ==
    SubSeq(draw.vb1.data, 1, Min(draw.instances, Len(draw.vb1.data)))

\* the draws of the models in the main pass
ModelDraws == {i \in DOMAIN MainDraws : MainDraws[i].pipeline.name # "light"}

\* C3: no draw reads matrices older than the current transforms of its entity: a
\* mutation of a Transform or of an Instances list is written to the instance buffer
\* before the next draw that binds the buffer, for every order of the systems.
C3_DrawsReadCurrentTransforms ==
    JustRendered =>
        \A i \in ModelDraws :
            ReadMatrices(MainDraws[i]) = CurrentMatrices(MainDraws[i].entity)

\* C4: once the refresh system has seen every mutation, the instance buffer of each
\* entity holds exactly as many matrices as the entity has instances.
C4_BufferLengthIsInstanceCount ==
    \A e \in Entities :
        (ent[e].present /\ IsSome(ent[e].buffer) /\ ~changed[e])
            => Unwrap(ent[e].buffer).cap = InstanceCount(e)

\* C5: no write to an instance buffer and no draw addresses matrices beyond the
\* length the buffer was allocated with.
C5_NoAccessBeyondAllocation ==
    /\ \A e \in Entities :
           IsSome(lastWrite[e]) => Unwrap(lastWrite[e]).len <= Unwrap(lastWrite[e]).cap
    /\ \A i \in ModelDraws : MainDraws[i].instances <= MainDraws[i].vb1.cap

\* C6: a frame whose acquisition fails is abandoned without a panic and without a
\* submit, also after two failures in a row, and a frame whose acquisition succeeds
\* is rendered.
C6_FailedAcquisitionAbandonsFrame ==
    /\ failStreak > 0 => (~panicked /\ lastFrame = "abandoned" /\ submits = 0)
    /\ (failStreak = 0 /\ lastFrame # "none") => (lastFrame = "rendered" /\ submits = 1)

\* the depth texture the overlay pass of the last call of render samples
OverlaySampled == passes[2].draws[1].groups[1].texture

C11_FrameStepOrder ==
    /\ JustRendered =>
           /\ passes[1].label = "Opaque Render Pass" /\ passes[1].load = "Clear"
           /\ \A p \in 2..Len(passes) : passes[p].label = "Depth Visual Render Pass"
           /\ submits = 1
    /\ \A i, j \in DOMAIN MainDraws :
           (MainDraws[i].pipeline.name = "light" /\ MainDraws[j].pipeline.name = "opaque")
               => i < j

\* C12: a rendered frame holds the overlay pass exactly when ShowDepthBuffer is set
\* when the frame is rendered; the overlay is a pass of its own after the main pass,
\* over the same color target, loading it, without a depth attachment.
C12_OverlayIffShowDepth ==
    JustRendered =>
        /\ Len(passes) = (IF showDepth THEN 2 ELSE 1)
        /\ passes[1].label = "Opaque Render Pass"
        /\ showDepth =>
               /\ passes[2].label = "Depth Visual Render Pass"
               /\ passes[2].color = passes[1].color
               /\ passes[2].load = "Load"
               /\ passes[2].depth = None

\* a frame rendered with the flag set, after a resize
C12_Witness ==
    /\ JustRendered /\ showDepth /\ texCount > 2
    /\ Len(passes) = 2 /\ passes[2].label = "Depth Visual Render Pass"

\* the entities that have a Model and an InstanceBuffer and are not the light
Renderable == {e \in Entities : ent[e].present /\ IsSome(ent[e].buffer) /\ ~ent[e].light}

\* how often a loop iterates an entity
Occurrences(seq, e) == Cardinality({i \in DOMAIN seq : seq[i] = e})

\* C13: in a rendered frame every renderable entity, also one tagged Transparent, is
\* iterated exactly once by the opaque loop and exactly once by the transparent loop.
C13_EveryRenderableIteratedOncePerPass ==
    JustRendered =>
        \A e \in Renderable :
            /\ Occurrences(passes[1].visits.opaque, e) = 1
            /\ Occurrences(passes[1].visits.transparent, e) = 1

\* C14: every draw of a visited entity is issued with as many instances as the entity
\* has Instances transforms when the frame is rendered, and with one instance for an
\* entity with a single Transform.
C14_InstanceRangeIsCurrentCount ==
    JustRendered =>
        /\ \A i \in ModelDraws :
               MainDraws[i].instances = InstanceCount(MainDraws[i].entity)
        /\ \A e \in Visited : \E i \in ModelDraws : MainDraws[i].entity = e

\* a frame that draws the instanced entity after its number of instances has changed,
\* and the single-transform entity
C14_Witness ==
    /\ JustRendered
    /\ \E i, j \in ModelDraws :
           /\ MainDraws[i].entity = InstE
           /\ MainDraws[i].instances = InstanceCount(InstE)
           /\ MainDraws[i].instances # MainDraws[i].vb1.cap
           /\ MainDraws[j].entity = ObjE
           /\ MainDraws[j].instances = 1

\* the commands a step appends to the queue
Queued == SubSeq(commands', Len(commands) + 1, Len(commands'))

\* C15: create_instance_buffer builds a buffer only for an entity that has none, with
\* one matrix per instance the entity then has (one for a single Transform), and a
\* buffer an entity has is never replaced by another build.
C15_BufferBuiltOncePerEntity ==
    [][/\ ("create_instance_buffer" \in pending /\ "create_instance_buffer" \notin pending') =>
            \A i \in DOMAIN Queued :
                /\ Queued[i].op = "insert"
                /\ ~IsSome(ent[Queued[i].entity].buffer)
                /\ Queued[i].buffer = create_buffer_init(CurrentMatrices(Queued[i].entity))
                /\ Queued[i].buffer.cap = InstanceCount(Queued[i].entity)
                /\ \A j \in DOMAIN Queued : Queued[j].entity = Queued[i].entity => j = i
       /\ \A e \in Entities :
              IsSome(ent[e].buffer) => ent'[e].buffer = ent[e].buffer]_vars

\* both loaded entities have their buffer (4 matrices and 1 matrix) and frames go on
C15_Witness ==
    /\ JustRendered /\ commands = <<>>
    /\ IsSome(ent[InstE].buffer) /\ IsSome(ent[ObjE].buffer)
    /\ Unwrap(ent[InstE].buffer).cap = (NUM_INSTANCES_PER_ROW + 1) * (NUM_INSTANCES_PER_ROW + 1)
    /\ Unwrap(ent[ObjE].buffer).cap = 1
    /\ InstE \in Visited /\ ObjE \in Visited

\* the entities whose model is built from the LoadedObj
Loaded == Visited \cap {ObjE, InstE}

\* the alpha the material of a sub-mesh was created with
CreatedAlpha(mesh) == asset.materials[unwrap_or(asset.meshes[mesh], 0) + 1]

\* C16: a material keeps the alpha it was created with for pass selection: in a
\* rendered frame a sub-mesh whose material was created with alpha < 1.0 is drawn
\* exactly once with the transparent pipeline and not with the opaque one, and a
\* sub-mesh whose material was created with alpha 1.0 exactly once with the opaque one.
C16_CreatedAlphaSelectsPass ==
    JustRendered =>
        \A e \in Loaded : \A mesh \in DOMAIN asset.meshes :
            /\ CreatedAlpha(mesh) < AlphaOpaque =>
                   DrawCount("transparent", e, mesh) = 1 /\ DrawCount("opaque", e, mesh) = 0
            /\ CreatedAlpha(mesh) = AlphaOpaque =>
                   DrawCount("opaque", e, mesh) = 1 /\ DrawCount("transparent", e, mesh) = 0

\* affine maps for stating products: Compose(A, B) applies B first, then A
Translation(v) == [lin |-> <<<<1, 0>>, <<0, 1>>>>, off |-> v]

Rotation(q) == [lin |-> Rot(q), off |-> <<0, 0>>]

Scaling(s) == [lin |-> <<<<s[1], 0>>, <<0, s[2]>>>>, off |-> <<0, 0>>]

Compose(A, B) ==
    [lin |-> [r \in 1..2 |-> [c \in 1..2 |->
                 A.lin[r][1] * B.lin[1][c] + A.lin[r][2] * B.lin[2][c]]],
     off |-> [r \in 1..2 |->
                 A.lin[r][1] * B.off[1] + A.lin[r][2] * B.off[2] + A.off[r]]]

TranslationRotationScale(t) ==
    Compose(Translation(t.translation), Compose(Rotation(t.rotation), Scaling(t.scale)))

\* the step in which update_instance_buffer runs
UpdateStep == "update_instance_buffer" \in pending /\ "update_instance_buffer" \notin pending'

\* C17: whenever update_instance_buffer refreshes the buffer of an entity with
\* N >= 1 instances that fit its allocation, the matrix it writes at every
\* index i < N is the product
\* translation_i * rotation_i * scale_i of instance i's transform.
C17_MatrixIsTranslationRotationScale ==
    [][UpdateStep =>
        \A e \in Entities :
            (update_query(e) /\ Len(Unwrap(ent[e].instances)) <= Unwrap(ent[e].buffer).cap) =>
                LET list == Unwrap(ent[e].instances)
                IN \A i \in 1..Len(list) :
                       Unwrap(ent'[e].buffer).data[i] = TranslationRotationScale(list[i])]_vars

\* a buffer refreshed from two different instances, the first turned and
\* scaled unevenly
C17_Witness ==
    /\ "update_instance_buffer" \notin pending
    /\ ent[InstE].present /\ IsSome(ent[InstE].instances) /\ ~changed[InstE]
    /\ IsSome(lastWrite[InstE])
    /\ LET list == Unwrap(ent[InstE].instances)
       IN /\ Len(list) = 2 /\ list[1] # list[2]
          /\ list[1].rotation = 1 /\ list[1].scale = <<1, 2>>
          /\ IsSome(ent[InstE].buffer)
          /\ Unwrap(ent[InstE].buffer).data = <<TranslationRotationScale(list[1]),
                                                TranslationRotationScale(list[2])>>

\* every system of the frame has run
FrameDone == variant = "wgpu" /\ ~panicked /\ pending = {}

\* C18: in a frame in which nothing changes the camera (no setup, no input, no
\* resize) the camera buffer is not written.
C18_CameraBufferWrittenOnlyWhenChanged ==
    (FrameDone /\ cause = {}) => ~cameraWritten

\* the step in which update_light runs
UpdateLightStep == "update_light" \in pending /\ "update_light" \notin pending'

\* C19: while the animate-light setting is disabled, a frame's update_light leaves
\* the light's position and the light buffer as they were.
C19_LightAnimatedOnlyWhenEnabled ==
    [][(UpdateLightStep /\ ~animate_light) =>
          (light' = light /\ light_buffer' = light_buffer)]_vars

\* the step in which resize runs and reads at least one WindowResized event
ResizeStep == "resize" \in pending /\ "resize" \notin pending' /\ events > 0

\* C20: the depth texture always has the width and height of the surface
\* configuration, a rendered frame uses it as the depth attachment of its main pass,
\* and a run of resize that reads an event replaces it by a new texture made from
\* the new configuration.
C20_DepthTextureMatchesSurface ==
    /\ [](/\ depthTexture.width = config.width
          /\ depthTexture.height = config.height
          /\ JustRendered => passes[1].depth = Some(depthTexture.id))
    /\ [][ResizeStep =>
             /\ config' = window
             /\ depthTexture'.id > texCount
             /\ depthTexture' = create_depth_texture(config', depthTexture'.id)]_vars

\* a frame rendered after the window was resized to another size
C20_Witness ==
    /\ JustRendered /\ events = 0
    /\ config # InitialSize /\ config = window
    /\ depthTexture.id > 2
    /\ <<depthTexture.width, depthTexture.height>> = <<config.width, config.height>>
    /\ passes[1].depth = Some(depthTexture.id)

\* what a depth texture is to the passes that use it: its size and its format
Equivalent(a, b) == a.width = b.width /\ a.height = b.height /\ a.format = b.format

\* the surface state the resize system works on
SurfaceState ==
    [config |-> config, depthTexture |-> depthTexture, depthPass |-> depthPass,
     texCount |-> texCount]

\* the state after a resize to size and a resize back to the present configuration
RoundTrip(size) == ResizeEvent(ResizeEvent(SurfaceState, size), config)

CameraWriteStep ==
    /\ "update_camera_buffer" \in pending /\ "update_camera_buffer" \notin pending'
    /\ uniform_changed

ExceptBlend(pipeline) == [pipeline EXCEPT !.name = "", !.blend = ""]

\* C23: every draw of the main pass (opaque, transparent, light marker) is recorded
\* with a pipeline that tests depth with Less and writes depth, and the opaque and
\* the transparent pipeline differ in their blend state only.
C23_MainPassDrawsWriteDepth ==
    /\ \A i \in DOMAIN MainDraws :
           /\ MainDraws[i].pipeline.depth_compare = "Less"
           /\ MainDraws[i].pipeline.depth_write_enabled
    /\ ExceptBlend(render_pipeline) = ExceptBlend(transparent_render_pipeline)
    /\ render_pipeline.blend = "REPLACE"
    /\ transparent_render_pipeline.blend = "ALPHA_BLENDING"

\* the draws of the main pass recorded with the light pipeline
LightDraws == {i \in DOMAIN MainDraws : MainDraws[i].pipeline.name = "light"}

\* C24: a light-marker draw binds the camera bind group at slot 0 and the light bind
\* group at slot 1 and nothing else, with instance range 0..1; in a rendered frame
\* every mesh of every light model is drawn exactly once, whatever its material
\* list holds.
C24_LightDrawsBindCameraAndLightOnly ==
    /\ \A i \in LightDraws :
           /\ MainDraws[i].groups = <<camera_bind_group, light_bind_group>>
           /\ MainDraws[i].instances = 1
    /\ JustRendered =>
           \A k \in DOMAIN light_query :
               \A mesh \in 1..Len(ModelOf(light_query[k]).meshes) :
                   DrawCount("light", light_query[k], mesh) = 1

\* a rendered frame that has drawn the cube of spawn_light, whose material list is
\* empty, after the models
C24_Witness ==
    /\ JustRendered /\ LightDraws # {} /\ ModelDraws # {}
    /\ ModelOf(LightE).materials = <<>> /\ Len(ModelOf(LightE).meshes) = 1
    /\ DrawCount("light", LightE, 1) = 1

\* C25: in every draw of the main pass, the bind group set at a slot was created
\* with the very layout object the pipeline layout of the pipeline holds at that slot.
C25_PipelinesShareLayoutObjects ==
    \A i \in DOMAIN MainDraws :
        \A k \in DOMAIN MainDraws[i].groups :
            /\ k <= Len(MainDraws[i].pipeline.layout_objects)
            /\ MainDraws[i].groups[k].layout_object = MainDraws[i].pipeline.layout_objects[k]

\* render has returned Ok and the last command buffer of the frame is the one it
\* submitted
FrameSubmitted ==
    /\ lastFrame = "rendered" /\ queue # <<>>
    /\ queue[Len(queue)].work = [p \in DOMAIN passes |-> passes[p].label]

\* C26: when a frame has been rendered, the queue has received one command buffer
\* in that frame, in one submission: the uniform updates that go through an encoder
\* and the passes are in the same command buffer.
C26_OneCommandBufferPerFrame ==
    FrameSubmitted => (Len(queue) = 1 /\ submits = 1)

\* C27: in a rendered frame no sub-mesh of a visited model is drawn with both the
\* opaque and the transparent pipeline; one whose material has an alpha of at most
\* 1.0 is drawn exactly once in all, one whose alpha is above 1.0 is not drawn.
C27_NoSubMeshInBothPasses ==
    JustRendered =>
        \A e \in Visited : \A mesh \in DOMAIN ModelOf(e).meshes :
            LET opaque == DrawCount("opaque", e, mesh)
                transparent == DrawCount("transparent", e, mesh)
            IN  /\ ~(opaque > 0 /\ transparent > 0)
                /\ AlphaOf(ModelOf(e), mesh) <= AlphaOpaque => opaque + transparent = 1
                /\ AlphaOf(ModelOf(e), mesh) > AlphaOpaque => opaque + transparent = 0

\* a rendered frame that visits a model with a sub-mesh of alpha above 1.0, left
\* out, next to one of alpha below 1.0, drawn once
C27_Witness ==
    /\ JustRendered /\ ObjE \in Visited
    /\ \E m1, m2 \in DOMAIN ModelOf(ObjE).meshes :
           /\ AlphaOf(ModelOf(ObjE), m1) > AlphaOpaque
           /\ DrawCount("opaque", ObjE, m1) + DrawCount("transparent", ObjE, m1) = 0
           /\ AlphaOf(ModelOf(ObjE), m2) < AlphaOpaque
           /\ DrawCount("transparent", ObjE, m2) = 1

\* the entity has a Model together with a Transform, an Instances list, or both
HasComponents(e) ==
    /\ ent[e].present /\ ~ent[e].light
    /\ IsSome(ent[e].transform) \/ IsSome(ent[e].instances)

\* the main pass of the last rendered frame has a draw of the entity
Drawn(e) ==
    /\ lastFrame = "rendered"
    /\ \E i \in DOMAIN MainDraws : MainDraws[i].entity = e

\* C28: every entity with a Model and a Transform, an Instances list or both
\* eventually has an instance buffer and is drawn.
C28_EveryModelGetsBufferAndIsDrawn ==
    \A e \in Entities : HasComponents(e) ~> (IsSome(ent[e].buffer) /\ Drawn(e))

(***************************************************************************)
(* C29: a material that fails to load is left out and load_obj returns.    *)
(***************************************************************************)
\* the materials of the file whose load_material returns Ok, in the order of the file
Surviving(a) ==
    LET keep(i) == i \notin a.broken
        F[i \in 0..Len(a.materials)] ==
            IF i = 0 THEN <<>>
            ELSE IF keep(i) THEN Append(F[i - 1], LoadedMaterials(a)[i]) ELSE F[i - 1]
    IN  F[Len(a.materials)]

\* C29: while an OBJ is loaded, a material whose loading fails is left out of the
\* resulting material list and the remaining materials are still loaded: load_obj
\* returns normally with exactly the materials that loaded, and no loader task panics
C29_FailingMaterialIsLeftOut ==
    /\ load_panicked = {}
    /\ assetLoaded # {} =>
           /\ ~load_obj(asset).panic
           /\ load_obj(asset).materials = Surviving(asset)

(***************************************************************************)
(* C30: each handler spawns its model entity exactly once.                 *)
(***************************************************************************)
\* the spawn commands queued for entity e
SpawnsQueued(cmds, e) ==
    Cardinality({i \in DOMAIN cmds : cmds[i].op = "spawn" /\ cmds[i].entity = e})

\* the step is the run of system h in the current frame
HandlerStep(h) == h \in pending /\ h \notin pending'

\* the handlers, the name of the asset each waits for and the entity each spawns
Handlers ==
    {[system |-> "handle_obj_loaded", name |-> MODEL_NAME, entity |-> ObjE],
     [system |-> "handle_instanced_obj_loaded", name |-> INSTANCED_MODEL_NAME,
      entity |-> InstE]}

\* the entity of handler h was spawned exactly once so far: it is queued once or it
\* is in the world, and not both
SpawnedOnce(h) ==
    \/ SpawnsQueued(commands, h.entity) = 1 /\ ~ent[h.entity].present
    \/ SpawnsQueued(commands, h.entity) = 0 /\ ent[h.entity].present

NeverSpawned(h) == SpawnsQueued(commands, h.entity) = 0 /\ ~ent[h.entity].present

\* C30: handle_obj_loaded and handle_instanced_obj_loaded each spawn their model
\* entity exactly once over any number of frames: a run of the handler before the
\* asset is available queues nothing, the first run with the asset available queues
\* one spawn, and no later run (nor any other step) queues another
C30_HandlersSpawnExactlyOnce ==
    /\ [](\A h \in Handlers :
            IF mesh_spawned[h.name] THEN SpawnedOnce(h) ELSE NeverSpawned(h))
    /\ [][\A h \in Handlers :
            /\ (HandlerStep(h.system) /\ h.name \notin assetLoaded)
                   => commands' = commands
            /\ (HandlerStep(h.system) /\ h.name \in assetLoaded /\ ~mesh_spawned[h.name])
                   => SpawnsQueued(commands', h.entity) = 1
            /\ (HandlerStep(h.system) /\ mesh_spawned[h.name])
                   => commands' = commands
            /\ SpawnsQueued(commands', h.entity) > SpawnsQueued(commands, h.entity)
                   => HandlerStep(h.system)
            /\ mesh_spawned[h.name] => mesh_spawned'[h.name]]_vars

\* both entities are in the world, their buffers made in a frame after the spawn, and
\* both handlers have run again in this frame without queueing anything
C30_Witness ==
    /\ \A h \in Handlers :
           /\ ent[h.entity].present /\ IsSome(ent[h.entity].buffer)
           /\ h.system \notin pending
    /\ "render" \notin pending
    /\ commands = <<>>

====
